---- MODULE Spec2Model ----
(***************************************************************************)
(* Unigram tokenizer model (tokenizers/src/models/unigram/model.rs).       *)
(*                                                                         *)
(* Strings are sequences of characters, a character is a one-letter TLA+   *)
(* string.  An f64 is an integer; INFINITY, NEG_INFINITY and NAN are       *)
(* sentinels outside the range of the finite scores and of their sums.     *)
(* Trie and Lattice live in sibling files (trie.rs, lattice.rs) that are   *)
(* not part of model.rs; they are modelled from their documented contract  *)
(* and from what the tests of model.rs pin down about them.                *)
(***************************************************************************)
EXTENDS Integers, Sequences, FiniteSets, TLC

VARIABLES input, model, calls, file, reloaded, loader

vars == <<input, model, calls, file, reloaded, loader>>

(***************************************************************************)
(* Bounds of the model.                                                    *)
(***************************************************************************)
MaxVocab == 3
MaxLen == 3
NThreads == 2
MaxLines == 3

Alphabet == {"a", "b"}

\* Non-empty strings of at most n characters over Alphabet.
StringsUpTo(n) == UNION {[1..k -> Alphabet] : k \in 1..n}
Texts == {<<>>} \cup StringsUpTo(MaxLen)

(***************************************************************************)
(* f64                                                                     *)
(***************************************************************************)
INFINITY == 1000
NEG_INFINITY == 0 - INFINITY
NAN == INFINITY + INFINITY
K_UNK_PENALTY == 10

\* f64::min: a NaN operand is ignored.
f64_min(a, b) ==
    IF a = NAN THEN b
    ELSE IF b = NAN THEN a
    ELSE IF b < a THEN b ELSE a

RECURSIVE fold_min(_, _)
fold_min(acc, s) ==
    IF s = <<>> THEN acc ELSE fold_min(f64_min(acc, Head(s)), Tail(s))

(***************************************************************************)
(* Generic helpers                                                         *)
(***************************************************************************)
RECURSIVE Concat(_)
Concat(ss) == IF ss = <<>> THEN <<>> ELSE Head(ss) \o Concat(Tail(ss))

RECURSIVE SumSeq(_)
SumSeq(s) == IF s = <<>> THEN 0 ELSE Head(s) + SumSeq(Tail(s))

Reverse(s) == [i \in 1..Len(s) |-> s[Len(s) + 1 - i]]

IsPrefix(t, s) == Len(t) <= Len(s) /\ SubSeq(s, 1, Len(t)) = t

\* The part of s from 0-based offset p to its end (&chars[p..]).
Suffix(s, p) == SubSeq(s, p + 1, Len(s))

(***************************************************************************)
(* Trie<char>: the set of pushed sequences.                                *)
(***************************************************************************)
empty_trie == {}

TrieBuilder_push(trie, chars) == trie \cup {chars}

\* Every pushed sequence that is a prefix of `s`, shortest first.
RECURSIVE prefix_search_from(_, _, _)
prefix_search_from(trie, s, n) ==
    IF n > Len(s) THEN <<>>
    ELSE (IF SubSeq(s, 1, n) \in trie THEN <<SubSeq(s, 1, n)>> ELSE <<>>)
             \o prefix_search_from(trie, s, n + 1)

common_prefix_search(trie, s) == prefix_search_from(trie, s, 1)

(***************************************************************************)
(* HashMap<String, u32>                                                    *)
(***************************************************************************)
HashMap_new == <<>>

HashMap_insert(map, k, v) ==
    [x \in (DOMAIN map) \cup {k} |-> IF x = k THEN v ELSE map[x]]

(***************************************************************************)
(* Lattice: one per encode call.  Nodes are kept in insertion order, the   *)
(* node with node_id k is nodes[k + 1]; begin_nodes and end_nodes hold     *)
(* node_ids.  BOS is node 0 (it ends at 0), EOS is node 1 (it begins at    *)
(* len).                                                                   *)
(***************************************************************************)
NoNode == 0 - 1

Node_new(id, node_id, pos, length, score) ==
    [id |-> id, node_id |-> node_id, pos |-> pos, length |-> length,
     score |-> score]

Lattice_from(sentence, bos_id, eos_id, unk_id) ==
    LET len == Len(sentence) IN
    [chars |-> sentence,
     nodes |-> <<Node_new(bos_id, 0, 0, 0, 0), Node_new(eos_id, 1, len, 0, 0)>>,
     begin_nodes |-> [p \in 0..len |-> IF p = len THEN <<1>> ELSE <<>>],
     end_nodes |-> [p \in 0..len |-> IF p = 0 THEN <<0>> ELSE <<>>]]

Lattice_len(lattice) == Len(lattice.chars)

Lattice_insert(lattice, pos, length, score, id) ==
    LET node_id == Len(lattice.nodes) IN
    [lattice EXCEPT
        !.nodes = Append(@, Node_new(id, node_id, pos, length, score)),
        !.begin_nodes[pos] = Append(@, node_id),
        !.end_nodes[pos + length] = Append(@, node_id)]

Lattice_node(lattice, node_id) == lattice.nodes[node_id + 1]

Lattice_piece(lattice, node) ==
    SubSeq(lattice.chars, node.pos + 1, node.pos + node.length)

\* The best predecessor of a node beginning where the nodes `lnodes` end:
\* the reached one of highest backtrace score, the first of them on a tie.
RECURSIVE best_lnode(_, _, _)
best_lnode(bt, lnodes, best) ==
    IF lnodes = <<>> THEN best
    ELSE LET l == Head(lnodes) IN
         best_lnode(bt, Tail(lnodes),
                    IF bt[l].reached
                       /\ (best = NoNode \/ bt[l].score > bt[best].score)
                    THEN l ELSE best)

\* The forward pass over the nodes `order` (begin position ascending).
RECURSIVE viterbi_forward(_, _, _)
viterbi_forward(lattice, bt, order) ==
    IF order = <<>> THEN bt
    ELSE LET r == Head(order)
             rnode == Lattice_node(lattice, r)
             b == best_lnode(bt, lattice.end_nodes[rnode.pos], NoNode)
         IN viterbi_forward(
                lattice,
                IF b = NoNode THEN bt
                ELSE [bt EXCEPT ![r] = [score |-> bt[b].score + rnode.score,
                                        prev |-> b, reached |-> TRUE]],
                Tail(order))

RECURSIVE begin_order(_, _)
begin_order(lattice, p) ==
    IF p > Lattice_len(lattice) THEN <<>>
    ELSE lattice.begin_nodes[p] \o begin_order(lattice, p + 1)

\* Backpointers from `n` down to BOS, `n` first.
RECURSIVE backtrace(_, _)
backtrace(bt, n) ==
    IF n = NoNode \/ bt[n].prev = NoNode THEN <<>>
    ELSE <<n>> \o backtrace(bt, bt[n].prev)

\* The chosen nodes from BOS to EOS, both excluded, left to right.
Lattice_viterbi(lattice) ==
    LET bt0 == [k \in 0..(Len(lattice.nodes) - 1) |->
                   [score |-> 0, prev |-> NoNode, reached |-> k = 0]]
        bt == viterbi_forward(lattice, bt0, begin_order(lattice, 0))
        back == backtrace(bt, bt[1].prev)
    IN [i \in 1..Len(back) |-> Lattice_node(lattice, Reverse(back)[i])]

Lattice_tokens(lattice) ==
    LET path == Lattice_viterbi(lattice) IN
    [i \in 1..Len(path) |-> Lattice_piece(lattice, path[i])]

(***************************************************************************)
(* Unigram                                                                 *)
(***************************************************************************)
Unbuilt ==
    [state |-> "unbuilt", vocab |-> <<>>, scores |-> <<>>,
     token_to_ids |-> HashMap_new, trie |-> empty_trie, min_score |-> INFINITY,
     bos_id |-> 0, eos_id |-> 0, unk_id |-> 0]

\* A failed assert! or a panic!: no model is produced.
Panicked == [Unbuilt EXCEPT !.state = "panicked"]

\* Mutant of from_loop: an existing key keeps its first id
\* (entry(token).or_insert(id) instead of insert).
RECURSIVE from_loop_keep_first(_, _, _)
from_loop_keep_first(vocabulary, id, acc) ==
    IF id >= Len(vocabulary) THEN acc
    ELSE LET token == vocabulary[id + 1].token
             score == vocabulary[id + 1].score
         IN from_loop_keep_first(vocabulary, id + 1,
                [acc EXCEPT
                    !.vocab = Append(@, token),
                    !.scores = Append(@, score),
                    !.token_to_ids = IF token \in DOMAIN @ THEN @
                                     ELSE HashMap_insert(@, token, id),
                    !.trie = TrieBuilder_push(@, token)])

RECURSIVE from_loop(_, _, _)
from_loop(vocabulary, id, acc) ==
    IF id >= Len(vocabulary) THEN acc
    ELSE LET token == vocabulary[id + 1].token
             score == vocabulary[id + 1].score
         IN from_loop(vocabulary, id + 1,
                [acc EXCEPT
                    !.vocab = Append(@, token),
                    !.scores = Append(@, score),
                    !.token_to_ids = HashMap_insert(@, token, id),
                    !.trie = TrieBuilder_push(@, token)])

\* Mutant of Unigram_from: the assert on unk_id is missing.
Unigram_from_no_unk_check(vocabulary, bos_id, eos_id, unk_id) ==
    LET n == Len(vocabulary) IN
    IF ~(n >= 3) THEN Panicked
    ELSE IF ~(bos_id < n) THEN Panicked
    ELSE IF ~(eos_id < n) THEN Panicked
    ELSE LET built == from_loop(vocabulary, 0, Unbuilt)
             min_score == fold_min(INFINITY, built.scores)
         IN IF min_score = NEG_INFINITY THEN Panicked
            ELSE [built EXCEPT !.state = "ready", !.min_score = min_score,
                               !.bos_id = bos_id, !.eos_id = eos_id,
                               !.unk_id = unk_id]

Unigram_from(vocabulary, bos_id, eos_id, unk_id) ==
    LET n == Len(vocabulary) IN
    IF ~(n >= 3) THEN Panicked
    ELSE IF ~(bos_id < n) THEN Panicked
    ELSE IF ~(eos_id < n) THEN Panicked
    ELSE IF ~(unk_id < n) THEN Panicked
    ELSE LET built == from_loop(vocabulary, 0, Unbuilt)
             min_score == fold_min(INFINITY, built.scores)
         IN IF min_score = NEG_INFINITY THEN Panicked
            ELSE [built EXCEPT !.state = "ready", !.min_score = min_score,
                               !.bos_id = bos_id, !.eos_id = eos_id,
                               !.unk_id = unk_id]

Unigram_len(m) == Len(m.vocab)

\* Mutant of populate_results: any match counts as a single-character node
\* (the test `n == 1` dropped).
RECURSIVE populate_results_any_len(_, _, _, _)
populate_results_any_len(m, begin_pos, trie_results, acc) ==
    IF trie_results = <<>> THEN acc
    ELSE LET tok == Head(trie_results)
             n == Len(tok)
             id == m.token_to_ids[tok]
             score == m.scores[id + 1]
         IN populate_results_any_len(m, begin_pos, Tail(trie_results),
                [lattice |-> Lattice_insert(acc.lattice, begin_pos, n, score, id),
                 has_single_node |-> TRUE])

\* The inner loop of populate_nodes over the trie's results at begin_pos;
\* acc = [lattice, has_single_node].
RECURSIVE populate_results(_, _, _, _)
populate_results(m, begin_pos, trie_results, acc) ==
    IF trie_results = <<>> THEN acc
    ELSE LET tok == Head(trie_results)
             n == Len(tok)
             id == m.token_to_ids[tok]
             score == m.scores[id + 1]
         IN populate_results(m, begin_pos, Tail(trie_results),
                [lattice |-> Lattice_insert(acc.lattice, begin_pos, n, score, id),
                 has_single_node |-> acc.has_single_node \/ n = 1])

\* populate_pos with the fallback edge decided by `fallback` and scored
\* `unk_score`: the shape the mutants of populate_pos share.
populate_pos_with(m, lattice, begin_pos, unk_score, fallback) ==
    LET trie_results == common_prefix_search(m.trie, Suffix(lattice.chars, begin_pos))
        acc == populate_results(m, begin_pos, trie_results,
                                [lattice |-> lattice, has_single_node |-> FALSE])
    IN IF fallback /\ ~acc.has_single_node
       THEN Lattice_insert(acc.lattice, begin_pos, 1, unk_score, m.unk_id)
       ELSE acc.lattice

\* Mutant of populate_pos: the fallback edge is never inserted.
populate_pos_no_fallback(m, lattice, begin_pos) ==
    populate_pos_with(m, lattice, begin_pos, m.min_score - K_UNK_PENALTY, FALSE)

\* Mutant of populate_pos: the penalty is added instead of subtracted.
populate_pos_unk_bonus(m, lattice, begin_pos) ==
    populate_pos_with(m, lattice, begin_pos, m.min_score + K_UNK_PENALTY, TRUE)

\* Mutant of populate_pos: the penalty is forgotten.
populate_pos_no_penalty(m, lattice, begin_pos) ==
    populate_pos_with(m, lattice, begin_pos, m.min_score, TRUE)

\* One iteration of the outer loop of populate_nodes.
populate_pos(m, lattice, begin_pos) ==
    LET unk_score == m.min_score - K_UNK_PENALTY
        trie_results == common_prefix_search(m.trie, Suffix(lattice.chars, begin_pos))
        acc == populate_results(m, begin_pos, trie_results,
                                [lattice |-> lattice, has_single_node |-> FALSE])
    IN IF ~acc.has_single_node
       THEN Lattice_insert(acc.lattice, begin_pos, 1, unk_score, m.unk_id)
       ELSE acc.lattice

RECURSIVE populate_from(_, _, _)
populate_from(m, lattice, begin_pos) ==
    IF begin_pos >= Lattice_len(lattice) THEN lattice
    ELSE populate_from(m, populate_pos(m, lattice, begin_pos), begin_pos + 1)

populate_nodes(m, lattice) == populate_from(m, lattice, 0)

\* The fuse_unk loop of encode over the Viterbi path;
\* acc = [results, token].
RECURSIVE fuse_loop(_, _, _, _)
fuse_loop(m, lattice, path, acc) ==
    IF path = <<>> THEN acc
    ELSE LET node == Head(path)
             item == Lattice_piece(lattice, node)
         IN fuse_loop(m, lattice, Tail(path),
                IF node.id = m.unk_id
                THEN [acc EXCEPT !.token = @ \o item]
                ELSE [results |-> (IF acc.token # <<>>
                                   THEN Append(acc.results, acc.token)
                                   ELSE acc.results) \o <<item>>,
                      token |-> <<>>])

\* Mutant of encode_decode: the unknown run pending at the end of the walk
\* is not flushed.
encode_decode_no_flush(m, lattice, fuse_unk) ==
    IF fuse_unk
    THEN fuse_loop(m, lattice, Lattice_viterbi(lattice),
                   [results |-> <<>>, token |-> <<>>]).results
    ELSE Lattice_tokens(lattice)

\* encode after populate_nodes: the decode and the emission of the tokens.
encode_decode(m, lattice, fuse_unk) ==
    IF fuse_unk
    THEN LET acc == fuse_loop(m, lattice, Lattice_viterbi(lattice),
                              [results |-> <<>>, token |-> <<>>])
         IN IF acc.token # <<>> THEN Append(acc.results, acc.token)
            ELSE acc.results
    ELSE Lattice_tokens(lattice)

encode(m, sentence, fuse_unk) ==
    encode_decode(m,
        populate_nodes(m, Lattice_from(sentence, m.bos_id, m.eos_id, m.unk_id)),
        fuse_unk)

token_to_id(m, token) ==
    IF token \in DOMAIN m.token_to_ids THEN m.token_to_ids[token] ELSE NoNode

id_to_token(m, id) ==
    IF id < Len(m.vocab) THEN <<m.vocab[id + 1]>> ELSE <<>>

(***************************************************************************)
(* Persistence.  save writes the record of the model's fields without the  *)
(* trie; the derived Deserialize restores the fields and takes the trie    *)
(* from empty_trie().                                                      *)
(***************************************************************************)
NoFile == [saved |-> FALSE]

Serialize(m) ==
    [saved |-> TRUE, token_to_ids |-> m.token_to_ids, vocab |-> m.vocab,
     scores |-> m.scores, min_score |-> m.min_score, bos_id |-> m.bos_id,
     eos_id |-> m.eos_id, unk_id |-> m.unk_id]

Deserialize(f) ==
    [state |-> "ready", vocab |-> f.vocab, scores |-> f.scores,
     token_to_ids |-> f.token_to_ids, trie |-> empty_trie,
     min_score |-> f.min_score, bos_id |-> f.bos_id, eos_id |-> f.eos_id,
     unk_id |-> f.unk_id]

(***************************************************************************)
(* Vocabulary files.  A path is [exists, lines] for load_spm and           *)
(* [exists, json] for load; a line is a string or ReadError (the read of   *)
(* that line fails); json is malformed or parses to a list of             *)
(* (token, score) pairs.                                                   *)
(***************************************************************************)
TAB == "\t"
\* Stands for U+2581, the spm marker of a space.
SpmSpace == "_"
ReadError == <<"read error">>
Malformed == [malformed |-> TRUE, table |-> <<>>]
JsonList(table) == [malformed |-> FALSE, table |-> table]

\* str::replace(from, to) for single characters.
replace(line, from, to) ==
    [i \in 1..Len(line) |-> IF line[i] = from THEN to ELSE line[i]]

\* str::split(sep): the fields between the separators, empty ones included.
RECURSIVE split_from(_, _, _)
split_from(line, sep, field) ==
    IF line = <<>> THEN <<field>>
    ELSE IF Head(line) = sep THEN <<field>> \o split_from(Tail(line), sep, <<>>)
    ELSE split_from(Tail(line), sep, Append(field, Head(line)))

split(line, sep) == split_from(line, sep, <<>>)

Digit(c) == CASE c = "0" -> 0 [] c = "1" -> 1 [] OTHER -> NoNode

RECURSIVE digits_value(_, _)
digits_value(field, acc) ==
    IF field = <<>> THEN acc
    ELSE digits_value(Tail(field), acc * 10 + Digit(Head(field)))

\* str::parse::<f64> on an optional sign and digits; anything else is Err.
parse_f64(field) ==
    LET digits == IF field # <<>> /\ Head(field) = "-" THEN Tail(field) ELSE field
        ok == digits # <<>> /\ \A i \in 1..Len(digits) : Digit(digits[i]) # NoNode
    IN IF ~ok THEN [ok |-> FALSE, value |-> 0]
       ELSE [ok |-> TRUE,
             value |-> IF Head(field) = "-" THEN 0 - digits_value(digits, 0)
                       ELSE digits_value(digits, 0)]

LoadResult(outcome, error, m) == [outcome |-> outcome, error |-> error, model |-> m]

NoError == [kind |-> "none", line |-> 0, content |-> <<>>]

\* Ok(Unigram::from(..)), unless from panics.
OkFrom(table, bos_id, eos_id, unk_id) ==
    LET u == Unigram_from(table, bos_id, eos_id, unk_id) IN
    IF u.state = "panicked" THEN LoadResult("panic", NoError, Unbuilt)
    ELSE LoadResult("Ok", NoError, u)

\* The loop of load_spm over reader.lines().enumerate(), from line i on.
RECURSIVE load_spm_lines(_, _, _)
load_spm_lines(lines, i, table) ==
    IF i >= Len(lines) THEN OkFrom(table, 1, 2, 0)
    ELSE LET line == lines[i + 1] IN
         IF line = ReadError
         THEN LoadResult("Err", [kind |-> "io", line |-> i, content |-> <<>>], Unbuilt)
         ELSE LET newline == replace(line, SpmSpace, " ")
                  tokens == split(newline, TAB)
              IN IF Len(tokens) = 2
                 THEN LET score == parse_f64(tokens[2]) IN
                      IF ~score.ok THEN LoadResult("panic", NoError, Unbuilt)
                      ELSE load_spm_lines(lines, i + 1,
                               Append(table, [token |-> tokens[1],
                                              score |-> score.value]))
                 ELSE LoadResult("Err",
                          [kind |-> "InvalidLine", line |-> i, content |-> line],
                          Unbuilt)

load_spm(path) ==
    IF ~path.exists THEN LoadResult("panic", NoError, Unbuilt)
    ELSE load_spm_lines(path.lines, 0, <<>>)

load(path) ==
    IF ~path.exists THEN LoadResult("panic", NoError, Unbuilt)
    ELSE IF path.json.malformed
    THEN LoadResult("Err", [kind |-> "json", line |-> 0, content |-> <<>>], Unbuilt)
    ELSE OkFrom(path.json.table, 0, 1, 2)

(***************************************************************************)
(* State                                                                   *)
(***************************************************************************)
Threads == 1..NThreads

NoLattice == Lattice_from(<<>>, 0, 0, 0)

IdleCall ==
    [pc |-> "idle", sentence |-> <<>>, fuse_unk |-> FALSE, lattice |-> NoLattice,
     begin_pos |-> 0, path |-> <<>>, results |-> <<>>]

NoLoad == [fn |-> "none", outcome |-> "none"]

\* The (token, score) pairs the vocabularies are drawn from.
Entries ==
    {[token |-> <<"a">>, score |-> -1], [token |-> <<"b">>, score |-> 1],
     [token |-> <<"a", "b">>, score |-> -1], [token |-> <<"a", "b">>, score |-> 1],
     [token |-> <<"b", "a">>, score |-> -1], [token |-> <<"b", "a">>, score |-> 1]}
Vocabularies == UNION {[1..n -> Entries] : n \in 3..MaxVocab}

\* The boundary ids load (0, 1, 2) and load_spm (1, 2, 0) pass to from.
BoundaryIds == {<<0, 1, 2>>, <<1, 2, 0>>}

Inputs ==
    {[vocabulary |-> v, bos_id |-> b[1], eos_id |-> b[2], unk_id |-> b[3]] :
        v \in Vocabularies, b \in BoundaryIds}

InitWith(inputs) ==
    /\ input \in inputs
    /\ model = Unbuilt
    /\ calls = [t \in Threads |-> IdleCall]
    /\ file = NoFile
    /\ reloaded = Unbuilt
    /\ loader = NoLoad

Init == InitWith(Inputs)

(***************************************************************************)
(* Actions                                                                 *)
(***************************************************************************)
\* Unigram::from(&vocabulary, bos_id, eos_id, unk_id)
Build ==
    /\ model.state = "unbuilt"
    /\ model' = Unigram_from(input.vocabulary, input.bos_id, input.eos_id,
                             input.unk_id)
    /\ UNCHANGED <<input, calls, file, reloaded, loader>>

\* encode: entry, up to the call of populate_nodes.
CallEncode(t, sentence, fuse_unk) ==
    /\ model.state = "ready"
    /\ calls[t].pc = "idle"
    /\ calls' = [calls EXCEPT ![t] =
           [IdleCall EXCEPT
               !.pc = "populate", !.sentence = sentence, !.fuse_unk = fuse_unk,
               !.lattice = Lattice_from(sentence, model.bos_id, model.eos_id,
                                        model.unk_id)]]
    /\ UNCHANGED <<input, model, file, reloaded, loader>>

\* Mutant of PopulateStep: the lattice is one object shared by the calls, so
\* the edges of this iteration land in every lattice being populated.
PopulateStepShared(t) ==
    /\ calls[t].pc = "populate"
    /\ calls[t].begin_pos < Lattice_len(calls[t].lattice)
    /\ calls' = [u \in Threads |->
           IF u = t
           THEN [calls[u] EXCEPT
                    !.lattice = populate_pos(model, @, calls[t].begin_pos),
                    !.begin_pos = @ + 1]
           ELSE IF calls[u].pc = "populate"
                   /\ calls[t].begin_pos < Lattice_len(calls[u].lattice)
           THEN [calls[u] EXCEPT
                    !.lattice = populate_pos(model, @, calls[t].begin_pos)]
           ELSE calls[u]]
    /\ UNCHANGED <<input, model, file, reloaded, loader>>

\* populate_nodes: one iteration of `for begin_pos in 0..len`.
PopulateStep(t) ==
    /\ calls[t].pc = "populate"
    /\ calls[t].begin_pos < Lattice_len(calls[t].lattice)
    /\ calls' = [calls EXCEPT
           ![t].lattice = populate_pos(model, @, calls[t].begin_pos),
           ![t].begin_pos = @ + 1]
    /\ UNCHANGED <<input, model, file, reloaded, loader>>

\* populate_nodes returns.
PopulateDone(t) ==
    /\ calls[t].pc = "populate"
    /\ calls[t].begin_pos >= Lattice_len(calls[t].lattice)
    /\ calls' = [calls EXCEPT ![t].pc = "decode"]
    /\ UNCHANGED <<input, model, file, reloaded, loader>>

\* encode: the decode and the emission of the tokens.
Decode(t) ==
    /\ calls[t].pc = "decode"
    /\ calls' = [calls EXCEPT
           ![t].pc = "done",
           ![t].path = Lattice_viterbi(calls[t].lattice),
           ![t].results = encode_decode(model, calls[t].lattice,
                                        calls[t].fuse_unk)]
    /\ UNCHANGED <<input, model, file, reloaded, loader>>

\* encode(sentence, fuse_unk), from entry to return, by one caller.
Encode(t, sentence, fuse_unk) ==
    /\ model.state = "ready"
    /\ calls[t].pc = "idle"
    /\ LET lattice == populate_nodes(model,
                          Lattice_from(sentence, model.bos_id, model.eos_id,
                                       model.unk_id))
       IN calls' = [calls EXCEPT ![t] =
              [pc |-> "done", sentence |-> sentence, fuse_unk |-> fuse_unk,
               lattice |-> lattice, begin_pos |-> Lattice_len(lattice),
               path |-> Lattice_viterbi(lattice),
               results |-> encode_decode(model, lattice, fuse_unk)]]
    /\ UNCHANGED <<input, model, file, reloaded, loader>>

\* The caller takes the result; the lattice is dropped.
Return(t) ==
    /\ calls[t].pc = "done"
    /\ calls' = [calls EXCEPT ![t] = IdleCall]
    /\ UNCHANGED <<input, model, file, reloaded, loader>>

\* Model::save
Save ==
    /\ model.state = "ready"
    /\ ~file.saved
    /\ file' = Serialize(model)
    /\ UNCHANGED <<input, model, calls, reloaded, loader>>

\* Deserialize of the saved record.
Reload ==
    /\ file.saved
    /\ reloaded.state = "unbuilt"
    /\ reloaded' = Deserialize(file)
    /\ UNCHANGED <<input, model, calls, file, loader>>

\* One caller.
Next ==
    \/ Build
    \/ \E sentence \in Texts, fuse_unk \in BOOLEAN : Encode(1, sentence, fuse_unk)
    \/ Return(1)

Spec == Init /\ [][Next]_vars

(***************************************************************************)
(* Vocabulary as the claims speak of it, read off model.vocab and          *)
(* model.scores alone.                                                     *)
(***************************************************************************)
VocabSet(m) == {m.vocab[i] : i \in 1..Len(m.vocab)}

\* No vocabulary id backs this node: its piece, id and score are not those
\* of one vocabulary entry.
IsFallbackNode(m, lattice, node) ==
    ~\E i \in 1..Len(m.vocab) :
        /\ m.vocab[i] = Lattice_piece(lattice, node)
        /\ node.id = i - 1
        /\ node.score = m.scores[i]

Finished(t) == calls[t].pc = "done"

\* The pieces of `text` cut at the offsets `cuts`, from offset p on.
RECURSIVE PiecesFrom(_, _, _)
PiecesFrom(text, cuts, p) ==
    IF p >= Len(text) THEN <<>>
    ELSE LET later == {c \in cuts : c > p}
             q == IF later = {} THEN Len(text)
                  ELSE CHOOSE c \in later : \A d \in later : c <= d
         IN <<SubSeq(text, p + 1, q)>> \o PiecesFrom(text, cuts, q)

\* Every way of cutting `text` into pieces.
Segmentations(text) ==
    {PiecesFrom(text, cuts, 0) : cuts \in SUBSET (1..(Len(text) - 1))}

\* A piece is an edge of the lattice if it is a vocabulary token, or a
\* single character that is no vocabulary token (the unknown edge).
IsEdge(m, piece) == piece \in VocabSet(m) \/ Len(piece) = 1

EdgeScore(m, piece) ==
    IF piece \in VocabSet(m) THEN m.scores[token_to_id(m, piece) + 1]
    ELSE m.min_score - K_UNK_PENALTY

PathScore(m, pieces) ==
    SumSeq([i \in 1..Len(pieces) |-> EdgeScore(m, pieces[i])])

CompletePaths(m, text) ==
    {s \in Segmentations(text) : \A i \in 1..Len(s) : IsEdge(m, s[i])}

\* The indices at which a token of the fused output starts: every token
\* that is not unknown, and every unknown one that follows none.
RunStarts(m, path) ==
    {i \in 1..Len(path) :
        path[i].id # m.unk_id \/ i = 1 \/ path[i - 1].id # m.unk_id}

RunEnd(m, path, i) ==
    LET later == {j \in RunStarts(m, path) : j > i} IN
    IF later = {} THEN Len(path)
    ELSE (CHOOSE j \in later : \A d \in later : j <= d) - 1

\* The strings and ids the lookups are tried on.
LookupStrings == StringsUpTo(MaxLen)
LookupIds == 0..(MaxVocab + 1)

\* The vocabulary tokens that are a prefix of `text` at offset p.
Matches(m, text, p) == {tok \in VocabSet(m) : IsPrefix(tok, Suffix(text, p))}

(***************************************************************************)
(* C1: encode(text, false) returns a complete BOS-to-EOS path: the first   *)
(* token starts at character 0, each token starts where the previous one   *)
(* ends, the last one ends at len(text), every token is at least one       *)
(* character long, and the tokens concatenate to the text.                 *)
(***************************************************************************)
C1_CompletePath ==
    \A t \in Threads :
        Finished(t) /\ ~calls[t].fuse_unk =>
            LET c == calls[t]
                path == c.path
                k == Len(path)
            IN /\ Len(c.results) = k
               /\ \A i \in 1..k : c.results[i] = Lattice_piece(c.lattice, path[i])
               /\ \A i \in 1..k : path[i].length >= 1
               /\ k > 0 => path[1].pos = 0
               /\ \A i \in 1..(k - 1) :
                      path[i + 1].pos = path[i].pos + path[i].length
               /\ k > 0 => path[k].pos + path[k].length = Len(c.sentence)
               /\ k = 0 => c.sentence = <<>>
               /\ Concat(c.results) = c.sentence

\* A three-character text returned as at least two tokens, one of them the
\* unknown fallback.
C1_Witness ==
    \E t \in Threads :
        /\ Finished(t) /\ ~calls[t].fuse_unk
        /\ Len(calls[t].sentence) = 3
        /\ Len(calls[t].results) >= 2
        /\ \E i \in 1..Len(calls[t].path) :
               IsFallbackNode(model, calls[t].lattice, calls[t].path[i])

(***************************************************************************)
(* C2: the segmentation encode(text, false) returns scores at least as     *)
(* much as every complete path, vocabulary edges scoring their vocabulary  *)
(* score and unknown edges min_score - 10.                                 *)
(***************************************************************************)
C2_Optimal ==
    \A t \in Threads :
        Finished(t) /\ ~calls[t].fuse_unk =>
            LET paths == CompletePaths(model, calls[t].sentence)
                best == PathScore(model, calls[t].results)
            IN /\ calls[t].results \in paths
               /\ \A s \in paths : best >= PathScore(model, s)

\* A text with a complete path that scores strictly less than the returned
\* one, and one with more tokens that scores the same.
C2_Witness ==
    \E t \in Threads :
        /\ Finished(t) /\ ~calls[t].fuse_unk
        /\ \E s \in CompletePaths(model, calls[t].sentence) :
               PathScore(model, s) < PathScore(model, calls[t].results)
        /\ \E s \in CompletePaths(model, calls[t].sentence) :
               /\ s # calls[t].results
               /\ PathScore(model, s) = PathScore(model, calls[t].results)

(***************************************************************************)
(* C3: encode(text, true) is encode(text, false) with every maximal run of *)
(* consecutive tokens whose node id is unk_id replaced by the run's        *)
(* concatenation, the other tokens unchanged; it has no more tokens than   *)
(* the unfused output and concatenates to the same string.                 *)
(***************************************************************************)
C3_FuseRuns ==
    \A t \in Threads :
        Finished(t) /\ calls[t].fuse_unk =>
            LET c == calls[t]
                unfused == encode(model, c.sentence, FALSE)
                starts == RunStarts(model, c.path)
            IN /\ Len(unfused) = Len(c.path)
               /\ Len(c.results) = Cardinality(starts)
               /\ \A i \in starts :
                      c.results[Cardinality({j \in starts : j <= i})]
                          = Concat(SubSeq(unfused, i, RunEnd(model, c.path, i)))
               /\ Len(c.results) <= Len(unfused)
               /\ Concat(c.results) = Concat(unfused)

\* Unknown tokens fused at the end of the input, after a token that is not
\* unknown.
C3_Witness ==
    \E t \in Threads :
        /\ Finished(t) /\ calls[t].fuse_unk
        /\ Len(calls[t].path) = 3
        /\ Len(calls[t].results) = 2
        /\ calls[t].path[1].id # model.unk_id
        /\ calls[t].path[3].id = model.unk_id

(***************************************************************************)
(* C4 (as claimed): wherever the decoded path takes an unknown fallback    *)
(* edge at position p, no vocabulary token is a prefix of the text at p.   *)
(***************************************************************************)
C4_NoVocabularyPrefix ==
    \A t \in Threads :
        Finished(t) =>
            \A i \in 1..Len(calls[t].path) :
                LET node == calls[t].path[i] IN
                IsFallbackNode(model, calls[t].lattice, node) =>
                    ~\E tok \in VocabSet(model) :
                        IsPrefix(tok, Suffix(calls[t].sentence, node.pos))

(***************************************************************************)
(* C4 (amended): wherever the decoded path takes an unknown fallback edge  *)
(* at position p, the edge has length 1, id unk_id and score               *)
(* min_score - 10, which is strictly below every vocabulary score, and no  *)
(* vocabulary token of length 1 matches the text at p; longer vocabulary   *)
(* tokens may match at p.                                                  *)
(***************************************************************************)
C4_NoSingleCharacterToken ==
    \A t \in Threads :
        Finished(t) =>
            \A i \in 1..Len(calls[t].path) :
                LET node == calls[t].path[i] IN
                IsFallbackNode(model, calls[t].lattice, node) =>
                    /\ node.length = 1
                    /\ node.id = model.unk_id
                    /\ node.score = model.min_score - K_UNK_PENALTY
                    /\ \A j \in 1..Len(model.scores) : node.score < model.scores[j]
                    /\ <<calls[t].sentence[node.pos + 1]>> \notin VocabSet(model)

\* The path takes the unknown edge at a position where a longer vocabulary
\* token matches.
C4_Witness ==
    \E t \in Threads :
        /\ Finished(t)
        /\ \E i \in 1..Len(calls[t].path) :
               LET node == calls[t].path[i] IN
               /\ IsFallbackNode(model, calls[t].lattice, node)
               /\ \E tok \in VocabSet(model) :
                      IsPrefix(tok, Suffix(calls[t].sentence, node.pos))

(***************************************************************************)
(* C7 (as claimed): token_to_id and id_to_token are mutually inverse; in   *)
(* particular token_to_id(id_to_token(id)) = id for every id below the     *)
(* vocabulary size.                                                        *)
(***************************************************************************)
C7_MutuallyInverse ==
    model.state = "ready" =>
        \A id \in 0..(Len(model.vocab) - 1) :
            token_to_id(model, id_to_token(model, id)[1]) = id

(***************************************************************************)
(* C7 (amended): for every id below the vocabulary size,                   *)
(* token_to_id(id_to_token(id)) is the largest id holding the same token   *)
(* (id itself exactly when no later entry repeats the token); for every    *)
(* token t with token_to_id(t) = i, id_to_token(i) = t; token_to_id is     *)
(* None exactly for the strings not in the vocabulary and id_to_token is   *)
(* None exactly for the ids >= the vocabulary size.                        *)
(***************************************************************************)
C7_LastIdWins ==
    model.state = "ready" =>
        /\ \A id \in 0..(Len(model.vocab) - 1) :
               LET tok == id_to_token(model, id)[1]
                   same == {j \in 0..(Len(model.vocab) - 1) : model.vocab[j + 1] = tok}
               IN /\ token_to_id(model, tok) \in same
                  /\ \A j \in same : j <= token_to_id(model, tok)
        /\ \A tok \in LookupStrings :
               /\ token_to_id(model, tok) = NoNode <=> tok \notin VocabSet(model)
               /\ token_to_id(model, tok) # NoNode =>
                      id_to_token(model, token_to_id(model, tok)) = <<tok>>
        /\ \A id \in LookupIds :
               id_to_token(model, id) = <<>> <=> id >= Len(model.vocab)

\* A model whose vocabulary repeats a token and also holds a token once.
C7_Witness ==
    /\ model.state = "ready"
    /\ \E i, j \in 1..Len(model.vocab) : i < j /\ model.vocab[i] = model.vocab[j]
    /\ \E i \in 1..Len(model.vocab) :
           \A j \in 1..Len(model.vocab) : model.vocab[j] = model.vocab[i] => j = i

(***************************************************************************)
(* C10: after populate_nodes, the edges beginning at each p < len(text)    *)
(* are one edge per vocabulary token that is a prefix of the text at p,    *)
(* with that token's id and score, shortest first, followed by one unknown *)
(* edge (length 1, id unk_id, score min_score - 10) exactly when none of   *)
(* the matches has length 1; so begin_nodes[p] is never empty and always   *)
(* holds an edge of length 1.                                              *)
(***************************************************************************)
C10_Edges ==
    \A t \in Threads :
        calls[t].pc \in {"decode", "done"} =>
            \A p \in 0..(Len(calls[t].sentence) - 1) :
                LET lat == calls[t].lattice
                    edges == [i \in 1..Len(lat.begin_nodes[p]) |->
                                 Lattice_node(lat, lat.begin_nodes[p][i])]
                    matches == Matches(model, calls[t].sentence, p)
                    nm == Cardinality(matches)
                    single == \E tok \in matches : Len(tok) = 1
                IN /\ Len(edges) = nm + (IF single THEN 0 ELSE 1)
                   /\ \A i \in 1..Len(edges) : edges[i].pos = p
                   /\ \A i \in 1..nm :
                          /\ Lattice_piece(lat, edges[i]) \in matches
                          /\ edges[i].id = token_to_id(model, Lattice_piece(lat, edges[i]))
                          /\ model.vocab[edges[i].id + 1] = Lattice_piece(lat, edges[i])
                          /\ edges[i].score = model.scores[edges[i].id + 1]
                   /\ \A i \in 1..(nm - 1) : edges[i].length < edges[i + 1].length
                   /\ ~single =>
                          /\ edges[nm + 1].length = 1
                          /\ edges[nm + 1].id = model.unk_id
                          /\ edges[nm + 1].score = model.min_score - K_UNK_PENALTY
                   /\ Len(edges) >= 1
                   /\ \E i \in 1..Len(edges) : edges[i].length = 1

\* A populated lattice with a position holding two vocabulary edges and no
\* unknown edge, and a position holding a vocabulary edge of length 2
\* followed by the unknown edge.
C10_Witness ==
    \E t \in Threads :
        /\ calls[t].pc \in {"decode", "done"}
        /\ \E p, q \in 0..(Len(calls[t].sentence) - 1) :
               LET lat == calls[t].lattice IN
               /\ Len(lat.begin_nodes[p]) = 2
               /\ Lattice_node(lat, lat.begin_nodes[p][1]).length = 1
               /\ ~IsFallbackNode(model, lat, Lattice_node(lat, lat.begin_nodes[p][1]))
               /\ Len(lat.begin_nodes[q]) = 2
               /\ Lattice_node(lat, lat.begin_nodes[q][1]).length = 2
               /\ IsFallbackNode(model, lat, Lattice_node(lat, lat.begin_nodes[q][2]))

(***************************************************************************)
(* Construction on arbitrary arguments.                                    *)
(***************************************************************************)
FromEntries == [token : StringsUpTo(1), score : {-1, 1, NEG_INFINITY, INFINITY, NAN}]

FromInputs ==
    [vocabulary : UNION {[1..n -> FromEntries] : n \in 2..MaxVocab},
     bos_id : 0..MaxVocab, eos_id : 0..MaxVocab, unk_id : 0..MaxVocab]

SpecFrom == InitWith(FromInputs) /\ [][Build]_vars

(***************************************************************************)
(* Persistence.                                                            *)
(***************************************************************************)
NextPersist == Build \/ Save \/ Reload

SpecPersist == Init /\ [][NextPersist]_vars

(***************************************************************************)
(* Concurrent callers of encode on one model.                              *)
(***************************************************************************)
ConcEntries ==
    {[token |-> <<"a">>, score |-> -1], [token |-> <<"b">>, score |-> 1],
     [token |-> <<"a", "b">>, score |-> 1]}

\* The three entries in every order, under both choices of boundary ids.
ConcInputs ==
    {[vocabulary |-> v, bos_id |-> b[1], eos_id |-> b[2], unk_id |-> b[3]] :
        v \in {w \in [1..3 -> ConcEntries] : \A i, j \in 1..3 : w[i] = w[j] => i = j},
        b \in BoundaryIds}

ConcTexts == {<<"b">>, <<"a", "b">>, <<"b", "a">>}

EncodeStep(t) ==
    \/ \E sentence \in ConcTexts, fuse_unk \in BOOLEAN : CallEncode(t, sentence, fuse_unk)
    \/ PopulateStep(t)
    \/ PopulateDone(t)
    \/ Decode(t)
    \/ Return(t)

NextConc == Build \/ \E t \in Threads : EncodeStep(t)

SpecConc == InitWith(ConcInputs) /\ [][NextConc]_vars

(***************************************************************************)
(* Loading a vocabulary file.                                              *)
(***************************************************************************)
SpmLines ==
    {<<"a", TAB, "1">>, <<SpmSpace, TAB, "-", "1">>, <<"b", TAB, "1", "0">>,
     <<"a">>, <<"a", TAB, "1", TAB, "1">>, <<"a", TAB, "x">>, ReadError}

SpmPaths ==
    {[exists |-> FALSE, lines |-> <<>>]}
        \cup {[exists |-> TRUE, lines |-> l] :
                 l \in UNION {[1..n -> SpmLines] : n \in 0..MaxLines}}

JsonEntries == [token : StringsUpTo(1), score : {-1, 1}]

JsonPaths ==
    {[exists |-> FALSE, json |-> Malformed], [exists |-> TRUE, json |-> Malformed]}
        \cup {[exists |-> TRUE, json |-> JsonList(v)] :
                 v \in UNION {[1..n -> JsonEntries] : n \in 2..MaxVocab}}

LoadCalls ==
    {[fn |-> "load_spm", path |-> p, outcome |-> "none", error |-> NoError] :
        p \in SpmPaths}
        \cup {[fn |-> "load", path |-> p, outcome |-> "none", error |-> NoError] :
                 p \in JsonPaths}

InitLoad ==
    /\ input = [vocabulary |-> <<>>, bos_id |-> 0, eos_id |-> 0, unk_id |-> 0]
    /\ model = Unbuilt
    /\ calls = [t \in Threads |-> IdleCall]
    /\ file = NoFile
    /\ reloaded = Unbuilt
    /\ loader \in LoadCalls

Loaded(r) ==
    /\ loader' = [loader EXCEPT !.outcome = r.outcome, !.error = r.error]
    /\ model' = r.model
    /\ UNCHANGED <<input, calls, file, reloaded>>

\* Unigram::load_spm(path)
LoadSpm ==
    /\ loader.fn = "load_spm"
    /\ loader.outcome = "none"
    /\ Loaded(load_spm(loader.path))

\* Unigram::load(path)
Load ==
    /\ loader.fn = "load"
    /\ loader.outcome = "none"
    /\ Loaded(load(loader.path))

NextLoad == LoadSpm \/ Load

SpecLoad == InitLoad /\ [][NextLoad]_vars

\* The arguments of from as the claims speak of them.
TooFew == Len(input.vocabulary) < 3

InvalidId ==
    \/ input.bos_id >= Len(input.vocabulary)
    \/ input.eos_id >= Len(input.vocabulary)
    \/ input.unk_id >= Len(input.vocabulary)

InputScores == {input.vocabulary[i].score : i \in 1..Len(input.vocabulary)}

\* The least of the scores that are numbers; INFINITY when none is.
LeastScore ==
    LET numbers == InputScores \ {NAN} IN
    IF numbers = {} THEN INFINITY
    ELSE CHOOSE x \in numbers : \A y \in numbers : x <= y

KeepsInput ==
    /\ model.state = "ready"
    /\ Len(model.vocab) = Len(input.vocabulary)
    /\ Len(model.scores) = Len(input.vocabulary)
    /\ Len(model.vocab) >= 3
    /\ \A i \in 1..Len(input.vocabulary) :
           /\ model.vocab[i] = input.vocabulary[i].token
           /\ model.scores[i] = input.vocabulary[i].score
    /\ model.min_score = LeastScore
    /\ model.bos_id = input.bos_id
    /\ model.eos_id = input.eos_id
    /\ model.unk_id = input.unk_id

(***************************************************************************)
(* C5 (as claimed): from yields no model whenever the vocabulary has fewer *)
(* than 3 entries, a boundary id is no index into it, or the minimum score *)
(* is non-finite; otherwise it yields a ready model that keeps the input.  *)
(***************************************************************************)
C5_AbortsOnNonFiniteMin ==
    model.state # "unbuilt" =>
        IF TooFew \/ InvalidId \/ LeastScore \in {INFINITY, NEG_INFINITY}
        THEN model.state = "panicked"
        ELSE KeepsInput

(***************************************************************************)
(* C5 (amended): from yields no model whenever the vocabulary has fewer    *)
(* than 3 entries, a boundary id is no index into it, or the minimum score *)
(* is negative infinity; in every other case, a minimum of positive        *)
(* infinity included, it yields a ready model with vocab and scores of     *)
(* equal length >= 3 in input order and min_score the least score that is  *)
(* a number.                                                               *)
(***************************************************************************)
C5_AbortsOnNegativeInfinity ==
    model.state # "unbuilt" =>
        IF TooFew \/ InvalidId \/ LeastScore = NEG_INFINITY
        THEN model.state = "panicked"
        ELSE KeepsInput

\* A ready model whose minimum score is positive infinity.
C5_Witness ==
    /\ model.state = "ready"
    /\ model.min_score = INFINITY
    /\ Len(model.vocab) = 3

(***************************************************************************)
(* C6: a saved and reloaded model has the vocab, scores and boundary ids   *)
(* of the original, a prefix index rebuilt from vocab, and encodes every   *)
(* text as the original does.                                              *)
(***************************************************************************)
C6_RoundTrip ==
    reloaded.state = "ready" =>
        /\ reloaded.vocab = model.vocab
        /\ reloaded.scores = model.scores
        /\ reloaded.bos_id = model.bos_id
        /\ reloaded.eos_id = model.eos_id
        /\ reloaded.unk_id = model.unk_id
        /\ reloaded.trie = VocabSet(reloaded)
        /\ \A text \in Texts, fuse_unk \in BOOLEAN :
               encode(reloaded, text, fuse_unk) = encode(model, text, fuse_unk)

(***************************************************************************)
(* C8: under any interleaving of concurrent encode calls the model stays   *)
(* as constructed, every call's lattice holds exactly the edges the call   *)
(* itself has inserted so far, and every call returns what it returns when *)
(* run alone.                                                              *)
(***************************************************************************)
\* The lattice of a call run alone, after `n` iterations of populate_nodes.
RECURSIVE AloneLattice(_, _, _)
AloneLattice(m, sentence, n) ==
    IF n = 0 THEN Lattice_from(sentence, m.bos_id, m.eos_id, m.unk_id)
    ELSE populate_pos(m, AloneLattice(m, sentence, n - 1), n - 1)

C8_Isolated ==
    model.state = "ready" =>
        /\ model = Unigram_from(input.vocabulary, input.bos_id, input.eos_id,
                                input.unk_id)
        /\ \A t \in Threads :
               calls[t].pc # "idle" =>
                   /\ calls[t].lattice =
                          AloneLattice(model, calls[t].sentence, calls[t].begin_pos)
                   /\ Finished(t) =>
                          calls[t].results =
                              encode(model, calls[t].sentence, calls[t].fuse_unk)

\* One call has returned its tokens while another, on a different text,
\* is half way through populate_nodes.
C8_Witness ==
    \E t, u \in Threads :
        /\ t # u
        /\ Finished(t) /\ Len(calls[t].results) >= 1
        /\ calls[u].pc = "populate"
        /\ calls[u].begin_pos = 1
        /\ Len(calls[u].sentence) = 2
        /\ calls[u].sentence # calls[t].sentence

(***************************************************************************)
(* C9: every failure while loading a vocabulary (the file cannot be        *)
(* opened, a read fails, a line does not split into exactly two fields,    *)
(* the structured list is malformed) is returned to the caller as an error *)
(* value, never as an abort, and no model is produced.                     *)
(***************************************************************************)
\* The line is read and splits into two fields.
GoodFields(line) ==
    line # ReadError /\ Len(split(replace(line, SpmSpace, " "), TAB)) = 2

\* One of the failures the claim lists is the first thing to go wrong.
ListedFailure ==
    \/ ~loader.path.exists
    \/ /\ loader.fn = "load"
       /\ loader.path.json.malformed
    \/ /\ loader.fn = "load_spm"
       /\ \E i \in 1..Len(loader.path.lines) :
              /\ ~GoodFields(loader.path.lines[i])
              /\ \A j \in 1..(i - 1) :
                     /\ GoodFields(loader.path.lines[j])
                     /\ parse_f64(split(replace(loader.path.lines[j], SpmSpace, " "),
                                        TAB)[2]).ok

C9_FailuresAreErrors ==
    loader.outcome # "none" /\ ListedFailure =>
        /\ loader.outcome = "Err"
        /\ model.state = "unbuilt"

====
